---- MODULE Spec2Model ----
(***************************************************************************)
(* State-machine model of SceneGraph (SceneGraph.h / SceneGraph.cpp): the  *)
(* actor registry, the deferred-insertion buffer, the per-frame Update     *)
(* pass, world-bounds clamping and the ray queries, on top of the          *)
(* quad-tree spatial index (QuadTreeCell).                                 *)
(*                                                                         *)
(* World coordinates are integers, four model units per tile, so that the  *)
(* root region { -0.5, -0.5, width, length } of a 2 x 2 tile map is the    *)
(* square [-2, 6] x [-2, 6] and three levels of quadrants have integer     *)
(* corners.                                                                *)
(***************************************************************************)
EXTENDS Integers, Sequences, FiniteSets, TLC

\* ------------------------------------------------------------------ bounds

\* Number of actors that can be spawned in one behaviour (actor identities).
MaxActors == 3

\* Largest occupancy threshold (maxObjectsInCell) that is tried.
MaxThreshold == 2

\* Number of times game code moves an actor in one behaviour.
MaxMoves == 1

\* ---------------------------------------------------------------- geometry

Pt(px, py) == [x |-> px, y |-> py]

Min(a, b) == IF a <= b THEN a ELSE b

Max(a, b) == IF a >= b THEN a ELSE b

\* Rect accessors: a rectangle is [x, y, w, h] with (x, y) its top-left corner.
GetLeft(r) == r.x

GetRight(r) == r.x + r.w

GetTop(r) == r.y

GetBottom(r) == r.y + r.h

\* The root region handed to m_QuadTreeRoot by the constructor: a 2 x 2 tile
\* map, { -0.5, -0.5, 2, 2 } in tiles.
RootBoundingBox == [x |-> -2, y |-> -2, w |-> 8, h |-> 8]

\* Bounding-box colliders an actor resource can declare (CollisionComponent::
\* GetBoundingBoxes): each local box has a position relative to the actor and
\* a size.  Shape 1 is one 2 x 2 box on the actor, shape 2 is two 2 x 2 boxes
\* left and right of it.
Shapes ==
  << << [pos |-> Pt(0, 0), w |-> 2, h |-> 2] >>,
     << [pos |-> Pt(-1, 0), w |-> 2, h |-> 2], [pos |-> Pt(1, 0), w |-> 2, h |-> 2] >> >>

\* The world-space box of a local box of an actor at position p: the local box
\* centred on p + local position.
WorldBox(p, lb) ==
  [x |-> p.x + lb.pos.x - (lb.w \div 2), y |-> p.y + lb.pos.y - (lb.h \div 2),
   w |-> lb.w, h |-> lb.h]

WorldBoxes(p, shape) == [i \in DOMAIN Shapes[shape] |-> WorldBox(p, Shapes[shape][i])]

\* r lies entirely within region.
RectContains(region, r) ==
  /\ GetLeft(r) >= GetLeft(region)
  /\ GetRight(r) <= GetRight(region)
  /\ GetTop(r) >= GetTop(region)
  /\ GetBottom(r) <= GetBottom(region)

\* The extent of an actor: the hull of its world-space boxes.
Extent(p, shape) ==
  LET bs == WorldBoxes(p, shape)
      l == CHOOSE v \in {GetLeft(bs[i]) : i \in DOMAIN bs} :
             \A i \in DOMAIN bs : v <= GetLeft(bs[i])
      r == CHOOSE v \in {GetRight(bs[i]) : i \in DOMAIN bs} :
             \A i \in DOMAIN bs : v >= GetRight(bs[i])
      t == CHOOSE v \in {GetTop(bs[i]) : i \in DOMAIN bs} :
             \A i \in DOMAIN bs : v <= GetTop(bs[i])
      b == CHOOSE v \in {GetBottom(bs[i]) : i \in DOMAIN bs} :
             \A i \in DOMAIN bs : v >= GetBottom(bs[i])
  IN [x |-> l, y |-> t, w |-> r - l, h |-> b - t]

\* --------------------------------------------------------------- quad-tree

\* A cell is named by its path from the root: <<>> is the root, <<q>> its
\* child in quadrant q, and so on.  Quadrants: 0 top-left, 1 top-right,
\* 2 bottom-left, 3 bottom-right.
Root == << >>

\* The back-reference of an actor no cell holds (a null QuadTreeCell*).
NoCell == << -1 >>

Quadrants == 0..3

Child(c, q) == Append(c, q)

\* The region of one quadrant of a region.
QuadrantOf(r, q) ==
  LET hw == r.w \div 2
      hh == r.h \div 2
  IN [x |-> IF q \in {1, 3} THEN r.x + hw ELSE r.x,
      y |-> IF q \in {2, 3} THEN r.y + hh ELSE r.y,
      w |-> hw, h |-> hh]

RECURSIVE GetBoundingBox(_)
GetBoundingBox(c) ==
  IF c = Root THEN RootBoundingBox
  ELSE QuadrantOf(GetBoundingBox(SubSeq(c, 1, Len(c) - 1)), c[Len(c)])


\* The index as the tree operations see it: t.tree maps every existing cell
\* to [actors, max] (the actor references it holds and its threshold), t.act
\* maps every live actor to its fields; act[a].cell is the actor's
\* back-reference (GetQuadTreeCell).
HasChildren(t, c) == Child(c, 0) \in DOMAIN t.tree

ActorExtent(t, a) == Extent(t.act[a].pos, t.act[a].shape)

\* The child quadrants of c whose region fully contains actor a.
FittingQuadrants(t, c, a) ==
  {q \in Quadrants : RectContains(GetBoundingBox(Child(c, q)), ActorExtent(t, a))}

\* Store the reference at cell c and point the actor's back-reference at c.
StoreAt(t, c, a) ==
  [tree |-> [t.tree EXCEPT ![c].actors = @ \cup {a}],
   act |-> [t.act EXCEPT ![a].cell = c]]

\* Subdivision leaving the parent's reference in place.
EraseAt_ReferenceKept(t, c, a) == t

\* Erase the reference from cell c; the back-reference is left to the caller.
EraseAt(t, c, a) == [t EXCEPT !.tree[c].actors = @ \ {a}]

\* Create the four children of c, each with c's threshold and no actors.
CreateChildren(t, c) ==
  [t EXCEPT !.tree =
     [d \in DOMAIN t.tree \cup {Child(c, q) : q \in Quadrants} |->
        IF d \in DOMAIN t.tree THEN t.tree[d]
        ELSE [actors |-> {}, max |-> t.tree[c].max]]]

RECURSIVE QuadTreeCell_InsertActor(_, _, _)
RECURSIVE Redistribute(_, _, _)

\* Subdivision's second half: every actor held by c (todo, in reference
\* order) is re-tested and pushed down to the child it now fits in.
Redistribute(t, c, todo) ==
  IF todo = {} THEN t
  ELSE LET a == CHOOSE v \in todo : \A w \in todo : v <= w
           fit == FittingQuadrants(t, c, a)
           t1 == IF fit = {} THEN t
                 ELSE QuadTreeCell_InsertActor(EraseAt(t, c, a),
                        Child(c, CHOOSE q \in fit : \A r \in fit : q <= r), a)
       IN Redistribute(t1, c, todo \ {a})

\* The subdivision test one actor late.
ExceedsThreshold_OneLate(count, max) == count > max + 1

\* A cell whose stored count exceeds its threshold and that has no children
\* yet subdivides.
ExceedsThreshold(count, max) == count > max

Subdivide(t, c) == Redistribute(CreateChildren(t, c), c, t.tree[c].actors)

\* QuadTreeCell::InsertActor at cell c.
QuadTreeCell_InsertActor(t, c, a) ==
  LET fit == IF HasChildren(t, c) THEN FittingQuadrants(t, c, a) ELSE {}
  IN IF fit # {}
     THEN QuadTreeCell_InsertActor(t, Child(c, CHOOSE q \in fit : \A r \in fit : q <= r), a)
     ELSE LET t1 == StoreAt(t, c, a)
          IN IF ~HasChildren(t1, c)
                /\ ExceedsThreshold(Cardinality(t1.tree[c].actors), t1.tree[c].max)
             THEN Subdivide(t1, c)
             ELSE t1

\* QuadTreeCell::RemoveActor at the owning cell c: erases the reference and
\* clears the back-reference; the result says whether the reference was held.
QuadTreeCell_RemoveActorHeld(t, c, a) == c \in DOMAIN t.tree /\ a \in t.tree[c].actors

QuadTreeCell_RemoveActor(t, c, a) ==
  IF QuadTreeCell_RemoveActorHeld(t, c, a)
  THEN [tree |-> [t.tree EXCEPT ![c].actors = @ \ {a}],
        act |-> [t.act EXCEPT ![a].cell = NoCell]]
  ELSE t

\* A set of actor references in reference order (ascending identity, which
\* is spawn order).
RECURSIVE SetToSeq(_)
SetToSeq(S) ==
  IF S = {} THEN << >>
  ELSE LET a == CHOOSE v \in S : \A w \in S : v <= w
       IN << a >> \o SetToSeq(S \ {a})

\* QuadTreeCell::AppendActorList: this cell's actors, then, when asked, the
\* descendants' in quadrant order.
RECURSIVE AppendActorList(_, _, _)
AppendActorList(t, c, recurse) ==
  SetToSeq(t.tree[c].actors) \o
  (IF recurse /\ HasChildren(t, c)
   THEN AppendActorList(t, Child(c, 0), TRUE) \o AppendActorList(t, Child(c, 1), TRUE)
        \o AppendActorList(t, Child(c, 2), TRUE) \o AppendActorList(t, Child(c, 3), TRUE)
   ELSE << >>)

\* QuadTreeCell::SetMaxNumActors: the threshold of c and, when asked, of every
\* descendant; no cell is subdivided or merged.
IsPrefix(c, d) == Len(c) <= Len(d) /\ SubSeq(d, 1, Len(c)) = c

QuadTreeCell_SetMaxNumActors(tree, c, n, recurse) ==
  [d \in DOMAIN tree |->
     IF d = c \/ (recurse /\ IsPrefix(c, d)) THEN [tree[d] EXCEPT !.max = n]
     ELSE tree[d]]


\* ------------------------------------------------------------ ray queries

\* Ray segments are axis-aligned or a single point, so that hit distances
\* are integers.  The hull of the segment from o to e:
SegmentBox(o, e) ==
  [x |-> Min(o.x, e.x), y |-> Min(o.y, e.y),
   w |-> Max(o.x, e.x) - Min(o.x, e.x), h |-> Max(o.y, e.y) - Min(o.y, e.y)]

\* The segment meets the (closed) rectangle r.
SegmentIntersects(o, e, r) ==
  LET sb == SegmentBox(o, e)
  IN /\ GetLeft(sb) <= GetRight(r)
     /\ GetRight(sb) >= GetLeft(r)
     /\ GetTop(sb) <= GetBottom(r)
     /\ GetBottom(sb) >= GetTop(r)

\* Distance from o along the segment to the point where it enters r.
HitDistance(o, e, r) ==
  LET dx == IF e.x > o.x THEN GetLeft(r) - o.x
            ELSE IF e.x < o.x THEN o.x - GetRight(r) ELSE 0
      dy == IF e.y > o.y THEN GetTop(r) - o.y
            ELSE IF e.y < o.y THEN o.y - GetBottom(r) ELSE 0
  IN Max(0, Max(dx, dy))

\* The boxes of actor a the segment meets, and the nearest hit among them.
BoxesHit(t, a, o, e) ==
  LET bs == WorldBoxes(t.act[a].pos, t.act[a].shape)
  IN {i \in DOMAIN bs : SegmentIntersects(o, e, bs[i])}

NearestHit(t, a, o, e) ==
  LET bs == WorldBoxes(t.act[a].pos, t.act[a].shape)
      ds == {HitDistance(o, e, bs[i]) : i \in BoxesHit(t, a, o, e)}
  IN CHOOSE d \in ds : \A d2 \in ds : d <= d2

\* The hits among a sequence of actor references, in that order.
RECURSIVE HitsAmong(_, _, _, _, _)
HitsAmong(t, s, o, e, ignore) ==
  IF s = << >> THEN << >>
  ELSE LET a == Head(s)
           rest == HitsAmong(t, Tail(s), o, e, ignore)
       IN IF a \notin ignore /\ a \in DOMAIN t.act /\ BoxesHit(t, a, o, e) # {}
          THEN << [actor |-> a, dist |-> NearestHit(t, a, o, e)] >> \o rest
          ELSE rest

\* The hits of cell c and the children the segment meets, in traversal
\* order; nothing when the segment misses c's region.
RECURSIVE CollectHits(_, _, _, _, _)
CollectHits(t, c, o, e, ignore) ==
  IF ~SegmentIntersects(o, e, GetBoundingBox(c)) THEN << >>
  ELSE HitsAmong(t, SetToSeq(t.tree[c].actors), o, e, ignore) \o
       (IF HasChildren(t, c)
        THEN CollectHits(t, Child(c, 0), o, e, ignore) \o CollectHits(t, Child(c, 1), o, e, ignore)
             \o CollectHits(t, Child(c, 2), o, e, ignore) \o CollectHits(t, Child(c, 3), o, e, ignore)
        ELSE << >>)

\* Ascending distance, ties in traversal order (insertion sort).
RECURSIVE InsertHit(_, _)
InsertHit(sorted, hit) ==
  IF sorted = << >> THEN << hit >>
  ELSE IF hit.dist < Head(sorted).dist THEN << hit >> \o sorted
  ELSE << Head(sorted) >> \o InsertHit(Tail(sorted), hit)

RECURSIVE SortHits(_)
SortHits(hits) ==
  IF hits = << >> THEN << >>
  ELSE InsertHit(SortHits(SubSeq(hits, 1, Len(hits) - 1)), hits[Len(hits)])

\* QuadTreeCell::Raycast: the hit actors by ascending distance.
QuadTreeCell_Raycast(t, c, o, e, ignore) ==
  LET sorted == SortHits(CollectHits(t, c, o, e, ignore))
  IN [i \in DOMAIN sorted |-> sorted[i].actor]

NoHit == [actor |-> 0, dist |-> -1]

\* The closer of two first-hit candidates; the earlier one on a tie.
Closer(h1, h2) ==
  IF h1 = NoHit THEN h2
  ELSE IF h2 = NoHit THEN h1
  ELSE IF h2.dist < h1.dist THEN h2 ELSE h1

RECURSIVE ClosestAmong(_, _)
ClosestAmong(best, hits) ==
  IF hits = << >> THEN best ELSE ClosestAmong(Closer(best, Head(hits)), Tail(hits))

\* QuadTreeCell::RaycastFirstHit: the nearest hit of this cell, then of each
\* child the segment meets, keeping the closest; no child is skipped.
RECURSIVE FirstHit(_, _, _, _, _)
FirstHit(t, c, o, e, ignore) ==
  IF ~SegmentIntersects(o, e, GetBoundingBox(c)) THEN NoHit
  ELSE LET own == ClosestAmong(NoHit, HitsAmong(t, SetToSeq(t.tree[c].actors), o, e, ignore))
       IN IF HasChildren(t, c)
          THEN Closer(Closer(Closer(Closer(own,
                 FirstHit(t, Child(c, 0), o, e, ignore)),
                 FirstHit(t, Child(c, 1), o, e, ignore)),
                 FirstHit(t, Child(c, 2), o, e, ignore)),
                 FirstHit(t, Child(c, 3), o, e, ignore))
          ELSE own

QuadTreeCell_RaycastFirstHit(t, c, o, e, ignore) == FirstHit(t, c, o, e, ignore).actor

\* ------------------------------------------------------------- collisions

\* The four clamps of SceneGraph::ResolveCollisions on one world-space box.
ClampBox(wb, root) ==
  LET b1 == IF GetLeft(wb) < GetLeft(root) THEN [wb EXCEPT !.x = GetLeft(root)] ELSE wb
      b2 == IF GetRight(b1) > GetRight(root)
            THEN [b1 EXCEPT !.x = GetRight(root) - b1.w] ELSE b1
      b3 == IF GetTop(b2) < GetTop(root) THEN [b2 EXCEPT !.y = GetTop(root)] ELSE b2
      b4 == IF GetBottom(b3) > GetBottom(root)
            THEN [b3 EXCEPT !.y = GetBottom(root) - b3.h] ELSE b3
  IN b4

GetCentrePosition(r) == Pt(r.x + (r.w \div 2), r.y + (r.h \div 2))

\* The loop over one actor's bounding boxes, from box i on: each box is
\* clamped at the actor's position of the moment and moves the actor.
RECURSIVE ClampBoxes(_, _, _, _)
ClampBoxes(p, shape, i, root) ==
  IF i > Len(Shapes[shape]) THEN p
  ELSE LET lb == Shapes[shape][i]
           wb == ClampBox(WorldBox(p, lb), root)
           c == GetCentrePosition(wb)
       IN ClampBoxes(Pt(c.x - lb.pos.x, c.y - lb.pos.y), shape, i + 1, root)

\* Overlap of two boxes along each axis (positive on both when they overlap).
PenetrationX(b1, b2) == Min(GetRight(b1), GetRight(b2)) - Max(GetLeft(b1), GetLeft(b2))

PenetrationY(b1, b2) == Min(GetBottom(b1), GetBottom(b2)) - Max(GetTop(b1), GetTop(b2))

Overlaps(b1, b2) == PenetrationX(b1, b2) > 0 /\ PenetrationY(b1, b2) > 0

\* Two overlapping boxes of actors a and b are separated along the axis of
\* minimum penetration, each actor moving half of it (rounded up) away from
\* the other.
SeparateBoxes(act, a, b, i, j) ==
  LET b1 == WorldBox(act[a].pos, Shapes[act[a].shape][i])
      b2 == WorldBox(act[b].pos, Shapes[act[b].shape][j])
      px == PenetrationX(b1, b2)
      py == PenetrationY(b1, b2)
      alongX == px <= py
      d == ((IF alongX THEN px ELSE py) + 1) \div 2
      aFirst == IF alongX THEN GetLeft(b1) <= GetLeft(b2) ELSE GetTop(b1) <= GetTop(b2)
      da == IF aFirst THEN -d ELSE d
      pa == act[a].pos
      pb == act[b].pos
  IN IF ~Overlaps(b1, b2) THEN act
     ELSE IF alongX
          THEN [act EXCEPT ![a].pos = Pt(pa.x + da, pa.y), ![b].pos = Pt(pb.x - da, pb.y)]
          ELSE [act EXCEPT ![a].pos = Pt(pa.x, pa.y + da), ![b].pos = Pt(pb.x, pb.y - da)]

\* Every box of a against every box of b, in order.
RECURSIVE SeparateFrom(_, _, _, _, _)
SeparateFrom(act, a, b, i, j) ==
  IF i > Len(Shapes[act[a].shape]) THEN act
  ELSE IF j > Len(Shapes[act[b].shape]) THEN SeparateFrom(act, a, b, i + 1, 1)
  ELSE SeparateFrom(SeparateBoxes(act, a, b, i, j), a, b, i, j + 1)

\* A sequence of actor pairs, resolved in order.
RECURSIVE SeparatePairs(_, _)
SeparatePairs(act, pairs) ==
  IF pairs = << >> THEN act
  ELSE SeparatePairs(SeparateFrom(act, Head(pairs)[1], Head(pairs)[2], 1, 1), Tail(pairs))

\* The pairs cell c tests: its own actors against each other, then against
\* the actors of its descendants.
RECURSIVE PairsOf(_, _)
PairsOf(own, below) ==
  IF own = << >> THEN << >>
  ELSE [i \in 1..(Len(own) - 1 + Len(below)) |->
          << Head(own), (Tail(own) \o below)[i] >>]
       \o PairsOf(Tail(own), below)

\* QuadTreeCell::ResolveCollisions, top-down from cell c: the actors' fields
\* after every overlapping pair has been separated.
RECURSIVE QuadTreeCell_ResolveCollisions(_, _)
QuadTreeCell_ResolveCollisions(t, c) ==
  LET own == SetToSeq(t.tree[c].actors)
      below == SubSeq(AppendActorList(t, c, TRUE), Len(own) + 1,
                      Len(AppendActorList(t, c, TRUE)))
      t1 == [t EXCEPT !.act = SeparatePairs(t.act, PairsOf(own, below))]
  IN IF HasChildren(t, c)
     THEN QuadTreeCell_ResolveCollisions(
            QuadTreeCell_ResolveCollisions(
              QuadTreeCell_ResolveCollisions(
                QuadTreeCell_ResolveCollisions(t1, Child(c, 0)),
                Child(c, 1)), Child(c, 2)), Child(c, 3))
     ELSE t1

\* ------------------------------------------------------- float arithmetic

\* A float is modelled by the exact rational it stands for, n / d with d > 0
\* in lowest terms; rounding error is left out.
RECURSIVE Gcd(_, _)
Gcd(a, b) == IF b = 0 THEN a ELSE Gcd(b, a % b)

Abs(n) == IF n < 0 THEN -n ELSE n

Rat(n, d) ==
  LET sn == IF d < 0 THEN -n ELSE n
      sd == Abs(d)
      g == Gcd(Abs(sn), sd)
  IN [n |-> sn \div g, d |-> sd \div g]

Int2Rat(i) == [n |-> i, d |-> 1]

RAdd(a, b) == Rat(a.n * b.d + b.n * a.d, a.d * b.d)

RSub(a, b) == Rat(a.n * b.d - b.n * a.d, a.d * b.d)

RMul(a, b) == Rat(a.n * b.n, a.d * b.d)

\* a / b for b # 0.
RDiv(a, b) == Rat(a.n * b.d, a.d * b.n)

\* std::floor.
RFloor(a) == Int2Rat(a.n \div a.d)

\* static_cast<int>(float): truncation towards zero.
RTrunc(a) == IF a.n >= 0 THEN a.n \div a.d ELSE -((-a.n) \div a.d)

\* A point of floats.
RPt(px, py) == [x |-> px, y |-> py]

\* Point<float> converted to Point<int>, coordinate by coordinate.
ToPointInt(p) == Pt(RTrunc(p.x), RTrunc(p.y))

\* Point<int> converted to Point<float>.
ToPointFloat(p) == RPt(Int2Rat(p.x), Int2Rat(p.y))

\* ------------------------------------------------------------- SceneGraph

VARIABLES
  m_Actors,            \* the actor registry (vector of owning pointers)
  m_NewActors,         \* the deferred-insertion buffer
  m_IsUpdatingActors,  \* the update-in-progress flag
  m_QuadTreeRoot,      \* the spatial index: cell -> [actors, max]
  actor,               \* the live Actor objects: identity -> fields
  nextActor,           \* the identity the next constructed actor gets
  pc,                  \* "idle", or "updating" inside Update's actor loop
  updateIndex,         \* position of Update's loop in m_Actors
  frameStart,          \* history: m_Actors when the current Update began
  updated,             \* history: actors whose Update ran in this pass
  newInPass,           \* history: actors spawned during this pass
  carried,             \* history: actors the last Update spawned and was to keep
  lastOp,              \* history: the operation that returned last
  returned,            \* the value the last operation returned
  moves,               \* the number of moves game code has made
  m_TileWidth,         \* the width of a tile in pixels
  m_TileHeight,        \* the height of a tile in pixels
  m_HalfTileWidth,     \* half the width of a tile, an int
  m_HalfTileHeight,    \* half the height of a tile, an int
  m_Zoom,              \* the zoom level
  m_wCameraPosition,   \* the camera's position in world space
  m_sCameraPosition,   \* the cached projection of the camera's position
  m_RenderPerspective, \* the perspective, or "indeterminate" before it is set
  removeArg,           \* history: the actor the last RemoveActor call was given
  removeResult,        \* the value the last RemoveActor call returned
  dividedByZero,       \* history: the last operation divided by zero
  factoryResult,       \* history: what the factory returned to the last spawn
  drawnTiles           \* history: the tiles the last RenderTileMaps visited

vars ==
  << m_Actors, m_NewActors, m_IsUpdatingActors, m_QuadTreeRoot, actor, nextActor,
     pc, updateIndex, frameStart, updated, newInPass, carried, lastOp, returned, moves,
     m_TileWidth, m_TileHeight, m_HalfTileWidth, m_HalfTileHeight, m_Zoom,
     m_wCameraPosition, m_sCameraPosition, m_RenderPerspective,
     removeArg, removeResult, dividedByZero, factoryResult, drawnTiles >>

history == << frameStart, updated, newInPass, carried, moves >>

\* The camera and projection members.
camera ==
  << m_TileWidth, m_TileHeight, m_HalfTileWidth, m_HalfTileHeight, m_Zoom,
     m_wCameraPosition, m_sCameraPosition, m_RenderPerspective >>

\* What the calls observed apart from the frame loop left behind.
probes == << removeArg, removeResult, dividedByZero, factoryResult, drawnTiles >>

Null == 0

ActorIds == 1..MaxActors

Range(s) == {s[i] : i \in DOMAIN s}

Index == [tree |-> m_QuadTreeRoot, act |-> actor]

\* The tile dimensions the scene is constructed with.
ConstructorTile == [w |-> 4, h |-> 2]

\* static_cast<int>(tileWidth / 2.0f) for a positive dimension.
HalfTile(dimension) == dimension \div 2

\* The constructor: empty registry and buffer, a root cell over the tile map,
\* zoom 1, SetTileDimensions, and SetCameraPosition on the default camera
\* position, which every perspective projects to the origin.  No
\* initializer sets m_RenderPerspective.
Init ==
  /\ m_Actors = << >>
  /\ m_NewActors = << >>
  /\ m_IsUpdatingActors = FALSE
  /\ \E maxObjectsInCell \in 1..MaxThreshold :
       m_QuadTreeRoot = [c \in {Root} |-> [actors |-> {}, max |-> maxObjectsInCell]]
  /\ actor = << >>
  /\ nextActor = 1
  /\ pc = "idle"
  /\ updateIndex = 0
  /\ frameStart = << >>
  /\ updated = << >>
  /\ newInPass = {}
  /\ carried = {}
  /\ lastOp = "SceneGraph"
  /\ returned = Null
  /\ moves = 0
  /\ m_TileWidth = ConstructorTile.w
  /\ m_TileHeight = ConstructorTile.h
  /\ m_HalfTileWidth = HalfTile(ConstructorTile.w)
  /\ m_HalfTileHeight = HalfTile(ConstructorTile.h)
  /\ m_Zoom = Int2Rat(1)
  /\ m_wCameraPosition = RPt(Int2Rat(0), Int2Rat(0))
  /\ m_sCameraPosition = RPt(Int2Rat(0), Int2Rat(0))
  /\ m_RenderPerspective = "indeterminate"
  /\ removeArg = Null
  /\ removeResult = FALSE
  /\ dividedByZero = FALSE
  /\ factoryResult = FALSE
  /\ drawnTiles = {}

\* Game code runs between frames and inside an actor's Update.
InGameCode == pc = "idle" \/ (pc = "updating" /\ updateIndex > 1)

\* A freshly constructed Actor(this, position, elevation) with the colliders
\* its resource declares: not pending destroy, held by no cell.
NewActor(position, shape) ==
  [pos |-> position, shape |-> shape, pending |-> FALSE, cell |-> NoCell]

\* The heap with actor a constructed.
Constructed(a, fields) ==
  [b \in DOMAIN actor \cup {a} |-> IF b = a THEN fields ELSE actor[b]]

\* The heap with the actors in gone released.
Released(act, gone) == [b \in DOMAIN act \ gone |-> act[b]]

\* AddActor without the side buffer: the actor goes to the registry even
\* while Update iterates over it.
AddActor_NoSideBuffer(a, fields) ==
  /\ m_Actors' = Append(m_Actors, a)
  /\ UNCHANGED m_NewActors
  /\ LET t == QuadTreeCell_InsertActor(
                [tree |-> m_QuadTreeRoot, act |-> Constructed(a, fields)], Root, a)
     IN /\ m_QuadTreeRoot' = t.tree
        /\ actor' = t.act
  /\ returned' = a

\* AddActor leaving the insertion into the index to the flush at the end of
\* Update.
AddActor_IndexedAtFlush(a, fields) ==
  /\ IF m_IsUpdatingActors
     THEN /\ m_NewActors' = Append(m_NewActors, a)
          /\ UNCHANGED m_Actors
     ELSE /\ m_Actors' = Append(m_Actors, a)
          /\ UNCHANGED m_NewActors
  /\ IF m_IsUpdatingActors
     THEN /\ actor' = Constructed(a, fields)
          /\ UNCHANGED m_QuadTreeRoot
     ELSE LET t == QuadTreeCell_InsertActor(
                     [tree |-> m_QuadTreeRoot, act |-> Constructed(a, fields)], Root, a)
          IN /\ m_QuadTreeRoot' = t.tree
             /\ actor' = t.act
  /\ returned' = a

\* SceneGraph::AddActor: the registry or, mid-update, the side buffer; then
\* the index.
AddActor(a, fields) ==
  /\ IF m_IsUpdatingActors
     THEN /\ m_NewActors' = Append(m_NewActors, a)
          /\ UNCHANGED m_Actors
     ELSE /\ m_Actors' = Append(m_Actors, a)
          /\ UNCHANGED m_NewActors
  /\ LET t == QuadTreeCell_InsertActor(
                [tree |-> m_QuadTreeRoot, act |-> Constructed(a, fields)], Root, a)
     IN /\ m_QuadTreeRoot' = t.tree
        /\ actor' = t.act
  /\ returned' = a

\* SceneGraph::SpawnActor(actorXmlFilename, position, elevation); ok is the
\* result of ActorFactory::AddComponentsAndInitaliseActor.
SpawnActor(position, shape, ok) ==
  /\ InGameCode
  /\ nextActor <= MaxActors
  /\ IF ok
     THEN /\ AddActor(nextActor, NewActor(position, shape))
          /\ nextActor' = nextActor + 1
          /\ newInPass' = IF pc = "updating" THEN newInPass \cup {nextActor} ELSE newInPass
     ELSE /\ returned' = Null
          /\ UNCHANGED << m_Actors, m_NewActors, m_QuadTreeRoot, actor, nextActor, newInPass >>
  /\ lastOp' = "SpawnActor"
  /\ factoryResult' = ok
  /\ UNCHANGED << camera, removeArg, removeResult, dividedByZero, drawnTiles, m_IsUpdatingActors, pc,
                  updateIndex, frameStart, updated, carried, moves >>

\* The template SpawnActor<ActorType>(jsonResource, args...): the factory's
\* result is not looked at; the constructed actor is added and returned
\* whether or not the factory initialised it.
SpawnActorTemplate(position, shape, ok) ==
  /\ InGameCode
  /\ nextActor <= MaxActors
  /\ AddActor(nextActor, NewActor(position, shape))
  /\ nextActor' = nextActor + 1
  /\ newInPass' = IF pc = "updating" THEN newInPass \cup {nextActor} ELSE newInPass
  /\ lastOp' = "SpawnActor<ActorType>"
  /\ factoryResult' = ok
  /\ UNCHANGED << camera, removeArg, removeResult, dividedByZero, drawnTiles, m_IsUpdatingActors, pc,
                  updateIndex, frameStart, updated, carried, moves >>

\* Game logic marks a live actor pending destroy.
SetPendingDestroy(a) ==
  /\ InGameCode
  /\ a \in DOMAIN actor
  /\ ~actor[a].pending
  /\ actor' = [actor EXCEPT ![a].pending = TRUE]
  /\ lastOp' = "SetPendingDestroy"
  /\ UNCHANGED << camera, probes, m_Actors, m_NewActors, m_IsUpdatingActors, m_QuadTreeRoot, nextActor,
                  pc, updateIndex, history, returned >>

\* Actor::SetPosition: the position field; the index is not touched.
SetPosition(act, a, position) == [act EXCEPT ![a].pos = position]

\* Game logic moves a live actor.
MoveActor(a, position) ==
  /\ InGameCode
  /\ a \in DOMAIN actor
  /\ actor[a].pos # position
  /\ moves < MaxMoves
  /\ actor' = SetPosition(actor, a, position)
  /\ moves' = moves + 1
  /\ lastOp' = "SetPosition"
  /\ UNCHANGED << camera, probes, m_Actors, m_NewActors, m_IsUpdatingActors, m_QuadTreeRoot, nextActor,
                  pc, updateIndex, frameStart, updated, newInPass, carried, returned >>

\* RemoveActor's result without the test of the back-reference: success for
\* any live actor.
RemoveActorResult_NoCellTest(t, a) == a \in DOMAIN t.act

\* SceneGraph::RemoveActor: through the back-reference, if there is one.
RemoveActorResult(t, a) ==
  t.act[a].cell # NoCell /\ QuadTreeCell_RemoveActorHeld(t, t.act[a].cell, a)

\* RemoveActor asking the root cell instead of the owning cell.
RemoveActor_AtRoot(t, a) ==
  IF t.act[a].cell # NoCell THEN QuadTreeCell_RemoveActor(t, Root, a) ELSE t

RemoveActor(t, a) ==
  IF t.act[a].cell # NoCell THEN QuadTreeCell_RemoveActor(t, t.act[a].cell, a) ELSE t

\* One call of SceneGraph::RemoveActor(pActor) on a live actor, made between
\* frames by the class itself; the actor stays owned by the registry.
CallRemoveActor(a) ==
  /\ pc = "idle"
  /\ a \in DOMAIN actor
  /\ LET t == RemoveActor(Index, a)
     IN /\ m_QuadTreeRoot' = t.tree
        /\ actor' = t.act
  /\ removeArg' = a
  /\ removeResult' = RemoveActorResult(Index, a)
  /\ lastOp' = "RemoveActor"
  /\ UNCHANGED << camera, dividedByZero, factoryResult, drawnTiles, m_Actors, m_NewActors, m_IsUpdatingActors, nextActor,
                  pc, updateIndex, history, returned >>

\* RemoveActor on each actor of a sequence, in order.
RECURSIVE RemoveEach(_, _)
RemoveEach(t, s) ==
  IF s = << >> THEN t ELSE RemoveEach(RemoveActor(t, Head(s)), Tail(s))

\* The orders a sequence's elements can be left in.
Orderings(S) ==
  {s \in [1..Cardinality(S) -> S] : \A i, j \in DOMAIN s : i # j => s[i] # s[j]}

\* std::partition(begin, end, pendingDestroy): the elements the predicate
\* holds for come first, in an unspecified order; the result points at the
\* first element of the second group.
PartitionFront(s) == {a \in Range(s) : actor[a].pending}

PartitionBack(s) == Range(s) \ PartitionFront(s)

\* DestroyPendingActors erasing the actors without removing them from the
\* graph first.
DestroyPendingActors_NotRemovedFromGraph(s, front) ==
  /\ front \in Orderings(PartitionFront(s))
  /\ m_Actors' = front
  /\ m_QuadTreeRoot' = m_QuadTreeRoot
  /\ actor' = Released(actor, PartitionBack(s))

\* SceneGraph::DestroyPendingActors on registry s: [destroyBegin, end) is
\* removed from the graph and erased; front is the order partition left the
\* first group in.
DestroyPendingActors(s, front) ==
  /\ front \in Orderings(PartitionFront(s))
  /\ LET gone == PartitionBack(s)
         t == RemoveEach(Index, SetToSeq(gone))
     IN /\ m_Actors' = front
        /\ m_QuadTreeRoot' = t.tree
        /\ actor' = Released(t.act, gone)

\* SceneGraph::Update, entry: the flag, then the loop starts.
UpdateBegin ==
  /\ pc = "idle"
  /\ m_IsUpdatingActors' = TRUE
  /\ pc' = "updating"
  /\ updateIndex' = 1
  /\ frameStart' = m_Actors
  /\ updated' = << >>
  /\ newInPass' = {}
  /\ UNCHANGED << camera, probes, m_Actors, m_NewActors, m_QuadTreeRoot, actor, nextActor, carried, lastOp,
                  returned, moves >>

\* SceneGraph::Update, one iteration of the loop: pActor->Update(deltaTime).
\* What the actor's logic does is the game-code actions that follow it.
UpdateActor ==
  /\ pc = "updating"
  /\ updateIndex <= Len(m_Actors)
  /\ updated' = Append(updated, m_Actors[updateIndex])
  /\ updateIndex' = updateIndex + 1
  /\ UNCHANGED << camera, probes, m_Actors, m_NewActors, m_IsUpdatingActors, m_QuadTreeRoot, actor,
                  nextActor, pc, frameStart, newInPass, carried, lastOp, returned, moves >>

\* Update returning with the flag still set.
UpdateEnd_FlagLeftSet ==
  /\ pc = "updating"
  /\ updateIndex > Len(m_Actors)
  /\ \E front \in Orderings(PartitionFront(m_Actors \o m_NewActors)) :
       DestroyPendingActors(m_Actors \o m_NewActors, front)
  /\ m_NewActors' = << >>
  /\ m_IsUpdatingActors' = TRUE
  /\ pc' = "idle"
  /\ updateIndex' = 0
  /\ carried' = {a \in newInPass : ~actor[a].pending}
  /\ lastOp' = "Update"
  /\ UNCHANGED << camera, probes, nextActor, frameStart, updated, newInPass, returned, moves >>

\* SceneGraph::Update, after the loop: the buffer is moved to the registry,
\* pending actors are destroyed, the flag is cleared.
UpdateEnd ==
  /\ pc = "updating"
  /\ updateIndex > Len(m_Actors)
  /\ \E front \in Orderings(PartitionFront(m_Actors \o m_NewActors)) :
       DestroyPendingActors(m_Actors \o m_NewActors, front)
  /\ m_NewActors' = << >>
  /\ m_IsUpdatingActors' = FALSE
  /\ pc' = "idle"
  /\ updateIndex' = 0
  /\ carried' = {a \in newInPass : ~actor[a].pending}
  /\ lastOp' = "Update"
  /\ UNCHANGED << camera, probes, nextActor, frameStart, updated, newInPass, returned, moves >>

\* SceneGraph::ClearActors: every registry actor leaves the index, the
\* registry is cleared.
ClearActors ==
  /\ pc = "idle"
  /\ LET t == RemoveEach(Index, m_Actors)
     IN /\ m_QuadTreeRoot' = t.tree
        /\ actor' = Released(t.act, Range(m_Actors))
  /\ m_Actors' = << >>
  /\ carried' = carried \ Range(m_Actors)
  /\ lastOp' = "ClearActors"
  /\ UNCHANGED << camera, probes, m_NewActors, m_IsUpdatingActors, nextActor, pc, updateIndex, frameStart,
                  updated, newInPass, returned, moves >>

\* SceneGraph::ClearActors called by an actor's update logic: the registry
\* Update iterates over is cleared, which invalidates the loop's iterators;
\* the loop either finds itself at the end or the process crashes.  The
\* side buffer is not looked at.
ClearActorsInUpdate ==
  /\ pc = "updating"
  /\ updateIndex > 1
  /\ LET t == RemoveEach(Index, m_Actors)
     IN /\ m_QuadTreeRoot' = t.tree
        /\ actor' = Released(t.act, Range(m_Actors))
  /\ m_Actors' = << >>
  /\ carried' = carried \ Range(m_Actors)
  /\ lastOp' = "ClearActors"
  /\ \E crash \in BOOLEAN : pc' = IF crash THEN "crashed" ELSE "updating"
  /\ UNCHANGED << camera, probes, m_NewActors, m_IsUpdatingActors, nextActor, updateIndex,
                  frameStart, updated, newInPass, returned, moves >>

\* SceneGraph::SetMaxNumActorsPerCell.
SetMaxNumActorsPerCell(maxNumActors) ==
  /\ pc = "idle"
  /\ m_QuadTreeRoot' = QuadTreeCell_SetMaxNumActors(m_QuadTreeRoot, Root, maxNumActors, TRUE)
  /\ lastOp' = "SetMaxNumActorsPerCell"
  /\ UNCHANGED << camera, probes, m_Actors, m_NewActors, m_IsUpdatingActors, actor, nextActor, pc,
                  updateIndex, history, returned >>

\* SceneGraph::ResolveCollisions: the actors the root hands out are clamped
\* into the root region box by box, then the tree separates overlapping
\* actors.
RECURSIVE ClampActors(_, _, _)
ClampActors(act, s, root) ==
  IF s = << >> THEN act
  ELSE LET a == Head(s)
       IN ClampActors(
            SetPosition(act, a, ClampBoxes(act[a].pos, act[a].shape, 1, root)),
            Tail(s), root)

ClampedActors(t) == AppendActorList(t, Root, FALSE)

ResolveCollisions ==
  /\ pc = "idle"
  /\ LET clamped == ClampActors(actor, ClampedActors(Index), GetBoundingBox(Root))
     IN actor' = QuadTreeCell_ResolveCollisions(
                   [tree |-> m_QuadTreeRoot, act |-> clamped], Root).act
  /\ lastOp' = "ResolveCollisions"
  /\ UNCHANGED << camera, probes, m_Actors, m_NewActors, m_IsUpdatingActors, m_QuadTreeRoot, nextActor, pc,
                  updateIndex, history, returned >>

\* SceneGraph::Raycast(origin, end, actorsToIgnore).
Raycast(origin, end, actorsToIgnore) ==
  QuadTreeCell_Raycast(Index, Root, origin, end, actorsToIgnore)

\* RaycastFirstHit with the segment's ends passed in the wrong order.
RaycastFirstHit_EndsSwapped(origin, end, actorsToIgnore) ==
  QuadTreeCell_RaycastFirstHit(Index, Root, end, origin, actorsToIgnore)

\* SceneGraph::RaycastFirstHit(origin, end, actorsToIgnore).
RaycastFirstHit(origin, end, actorsToIgnore) ==
  QuadTreeCell_RaycastFirstHit(Index, Root, origin, end, actorsToIgnore)

\* ------------------------------------------------- camera and projection

\* Renderer::GetScreenCentrePosition, in pixels.
ScreenCentre == Pt(8, 6)

\* The values a read of m_RenderPerspective can give: the value set, or any
\* value of the enum's underlying type while no one has set it.
ReadPerspective ==
  IF m_RenderPerspective = "indeterminate"
  THEN {"OBLIQUE", "ISOMETRIC", "other"}
  ELSE {m_RenderPerspective}

\* SceneGraph::ToCartesianCoord with the switch reading rp.
ToCartesianCoord(rp, isometricCoord) ==
  CASE rp = "OBLIQUE" ->
         RPt(RMul(isometricCoord.x, Int2Rat(m_TileWidth)),
             RMul(isometricCoord.y, Int2Rat(m_TileHeight)))
    [] rp = "ISOMETRIC" ->
         RPt(RMul(RSub(isometricCoord.x, isometricCoord.y), Int2Rat(m_HalfTileWidth)),
             RMul(RAdd(isometricCoord.x, isometricCoord.y), Int2Rat(m_HalfTileHeight)))
    [] OTHER -> RPt(Int2Rat(0), Int2Rat(0))

\* SceneGraph::ToIsometricCoord on a Point<int>, with the switch reading rp.
ToIsometricCoord(rp, cartesianCoord) ==
  LET overWidth == RDiv(Int2Rat(cartesianCoord.x), Int2Rat(m_TileWidth))
      overHeight == RDiv(Int2Rat(cartesianCoord.y), Int2Rat(m_TileHeight))
  IN CASE rp = "OBLIQUE" -> RPt(overWidth, overHeight)
       [] rp = "ISOMETRIC" -> RPt(RAdd(overHeight, overWidth), RSub(overHeight, overWidth))
       [] OTHER -> RPt(Int2Rat(0), Int2Rat(0))

\* SceneGraph::ToScreenPosition(wPosition, wElevation); the elevation has no
\* effect.
ToScreenPosition(rp, wPosition) ==
  LET sPosition == ToCartesianCoord(rp, wPosition)
  IN RPt(RAdd(RMul(RSub(sPosition.x, m_sCameraPosition.x), m_Zoom), Int2Rat(ScreenCentre.x)),
         RAdd(RMul(RSub(sPosition.y, m_sCameraPosition.y), m_Zoom), Int2Rat(ScreenCentre.y)))

\* SceneGraph::ToWorldPosition(sPosition) on a Point<int>.
ToWorldPosition(rp, sPosition) ==
  LET iso == ToIsometricCoord(
               rp, Pt(sPosition.x - ScreenCentre.x, sPosition.y - ScreenCentre.y))
      scaled == IF m_Zoom # Int2Rat(0)
                THEN RPt(RDiv(iso.x, m_Zoom), RDiv(iso.y, m_Zoom))
                ELSE iso
  IN RPt(RAdd(scaled.x, m_wCameraPosition.x), RAdd(scaled.y, m_wCameraPosition.y))

\* The divisors of ToWorldPosition: the tile dimensions in ToIsometricCoord,
\* and the zoom when the guard lets the division happen.
ToWorldPositionDivisors(rp) ==
  (IF rp \in {"OBLIQUE", "ISOMETRIC"}
   THEN {Int2Rat(m_TileWidth), Int2Rat(m_TileHeight)} ELSE {})
  \cup (IF m_Zoom # Int2Rat(0) THEN {m_Zoom} ELSE {})

\* The divisors of RenderTileMaps' culling extent.
RenderTileMapsDivisors ==
  {RMul(Int2Rat(m_TileWidth), m_Zoom), RMul(Int2Rat(m_TileHeight), m_Zoom)}

\* What a call that only moves the camera or the projection leaves alone.
scene ==
  << m_Actors, m_NewActors, m_IsUpdatingActors, m_QuadTreeRoot, actor, nextActor, pc,
     updateIndex, history >>

\* SceneGraph::SetCameraPosition(wCameraPosition, wCameraElevation): the
\* cached projection is recomputed and floored.
SetCameraPosition(wCameraPosition) ==
  /\ pc = "idle"
  /\ m_wCameraPosition' = wCameraPosition
  /\ \E rp \in ReadPerspective :
       LET projected == ToCartesianCoord(rp, wCameraPosition)
       IN m_sCameraPosition' = RPt(RFloor(projected.x), RFloor(projected.y))
  /\ lastOp' = "SetCameraPosition"
  /\ UNCHANGED << scene, probes, returned, m_TileWidth, m_TileHeight, m_HalfTileWidth,
                  m_HalfTileHeight, m_Zoom, m_RenderPerspective >>

\* SceneGraph::SetZoom(zoom): the member, nothing else.
SetZoom(zoom) ==
  /\ pc = "idle"
  /\ m_Zoom' = zoom
  /\ lastOp' = "SetZoom"
  /\ UNCHANGED << scene, probes, returned, m_TileWidth, m_TileHeight, m_HalfTileWidth,
                  m_HalfTileHeight, m_wCameraPosition, m_sCameraPosition,
                  m_RenderPerspective >>

\* SceneGraph::SetRenderPerspective(renderPerspective): the member, nothing
\* else.
SetRenderPerspective(renderPerspective) ==
  /\ pc = "idle"
  /\ m_RenderPerspective' = renderPerspective
  /\ lastOp' = "SetRenderPerspective"
  /\ UNCHANGED << scene, probes, returned, m_TileWidth, m_TileHeight, m_HalfTileWidth,
                  m_HalfTileHeight, m_Zoom, m_wCameraPosition, m_sCameraPosition >>

\* SceneGraph::SetTileDimensions(tileWidth, tileHeight): the dimensions and
\* their halves, nothing else.
SetTileDimensions(tileWidth, tileHeight) ==
  /\ pc = "idle"
  /\ m_TileWidth' = tileWidth
  /\ m_TileHeight' = tileHeight
  /\ m_HalfTileWidth' = HalfTile(tileWidth)
  /\ m_HalfTileHeight' = HalfTile(tileHeight)
  /\ lastOp' = "SetTileDimensions"
  /\ UNCHANGED << scene, probes, returned, m_Zoom, m_wCameraPosition, m_sCameraPosition,
                  m_RenderPerspective >>

\* SceneGraph::GetTileDimensions: Point<int>(m_TileHeight, m_TileWidth), the
\* first argument of Point being X and the second Y.
GetTileDimensions == Pt(m_TileHeight, m_TileWidth)

\* SceneGraph::GetTileWidth and SceneGraph::GetTileHeight.
GetTileWidth == m_TileWidth

GetTileHeight == m_TileHeight

\* One call of SceneGraph::ToWorldPosition(sPosition).
CallToWorldPosition(sPosition) ==
  /\ pc = "idle"
  /\ \E rp \in ReadPerspective :
       dividedByZero' = (Int2Rat(0) \in ToWorldPositionDivisors(rp))
  /\ lastOp' = "ToWorldPosition"
  /\ UNCHANGED << scene, camera, returned, removeArg, removeResult, factoryResult, drawnTiles >>

\* Model units of the spatial index per world unit (one tile).
UnitsPerTile == 4

\* A world position in the units of the index.
ToIndexUnits(w) == RPt(RMul(w.x, Int2Rat(UnitsPerTile)), RMul(w.y, Int2Rat(UnitsPerTile)))

\* The world position is a point of the index's grid.
OnGrid(w) == ToIndexUnits(w).x.d = 1 /\ ToIndexUnits(w).y.d = 1

\* SceneGraph::PickActor(sPosition): the first hit of a ray from the world
\* position under the screen position to itself.  Screen positions are taken
\* that project to points of the index's grid.
PickActor(sPosition) ==
  /\ pc = "idle"
  /\ \E rp \in ReadPerspective :
       LET wPosition == ToWorldPosition(rp, sPosition)
           g == ToPointInt(ToIndexUnits(wPosition))
       IN /\ OnGrid(wPosition)
          /\ returned' = RaycastFirstHit(g, g, {})
          /\ dividedByZero' = (Int2Rat(0) \in ToWorldPositionDivisors(rp))
  /\ lastOp' = "PickActor"
  /\ UNCHANGED << scene, camera, removeArg, removeResult, factoryResult, drawnTiles >>

\* std::roundf: the nearest integer, halfway cases away from zero.
RRound(a) ==
  IF a.n >= 0 THEN (2 * a.n + a.d) \div (2 * a.d)
  ELSE -((2 * (-a.n) + a.d) \div (2 * a.d))

\* The limits of int, the type the culling bounds are cast to.
IntMax == 2147483647

IntMin == -IntMax - 1

\* int + 1 in 32 bits.
IntSucc(n) == IF n = IntMax THEN IntMin ELSE n + 1

\* i < static_cast<size_t>(n) for an index i of a tile grid: a negative n
\* wraps to a value of at least 2^63, above every index.
BelowSizeT(i, n) == n < 0 \/ i < n

\* TileMap::GetWidth and TileMap::GetLength of the one tile map of the
\* scene: the grid the root region of the index was sized for.
GridWidth == RootBoundingBox.w \div UnitsPerTile

GridLength == RootBoundingBox.h \div UnitsPerTile

\* RenderTileMaps' cullingBoxExtent, defined when neither divisor is zero.
CullingBoxExtent ==
  RAdd(RDiv(Int2Rat(ScreenCentre.x), RMul(Int2Rat(m_TileWidth), m_Zoom)),
       RDiv(Int2Rat(ScreenCentre.y), RMul(Int2Rat(m_TileHeight), m_Zoom)))

\* The values minX, minY, maxX and maxY can have when the loops start. With
\* a zero divisor the extent is not finite and the casts to int are
\* undefined: each yields one of the values the conversion instructions
\* produce for an out-of-range operand.
CullingBounds ==
  IF Int2Rat(0) \in RenderTileMapsDivisors
  THEN {[minX |-> Max(a, 0), minY |-> Max(b, 0), maxX |-> IntSucc(c), maxY |-> IntSucc(d)] :
          a \in {IntMin, IntMax}, b \in {IntMin, IntMax},
          c \in {IntMin, IntMax}, d \in {IntMin, IntMax}}
  ELSE {[minX |-> Max(RRound(RSub(m_wCameraPosition.x, CullingBoxExtent)), 0),
         minY |-> Max(RRound(RSub(m_wCameraPosition.y, CullingBoxExtent)), 0),
         maxX |-> RRound(RAdd(m_wCameraPosition.x, CullingBoxExtent)) + 1,
         maxY |-> RRound(RAdd(m_wCameraPosition.y, CullingBoxExtent)) + 1]}

\* The tiles (j, i) the two loops of RenderTileMaps visit.
VisitedTiles(b) ==
  IF b.minY < GridLength /\ b.minX < GridWidth
  THEN {t \in {Pt(j, i) : j \in 0..(GridWidth - 1), i \in 0..(GridLength - 1)} :
          /\ t.x >= b.minX /\ BelowSizeT(t.x, b.maxX)
          /\ t.y >= b.minY /\ BelowSizeT(t.y, b.maxY)}
  ELSE {}

\* SceneGraph::RenderTileMaps: the culling extent divides the screen centre
\* by tile dimension times zoom, the bounds are rounded from it and the
\* tiles between them are drawn.
RenderTileMaps ==
  /\ pc = "idle"
  /\ dividedByZero' = (Int2Rat(0) \in RenderTileMapsDivisors)
  /\ \E b \in CullingBounds : drawnTiles' = VisitedTiles(b)
  /\ lastOp' = "RenderTileMaps"
  /\ UNCHANGED << scene, camera, returned, removeArg, removeResult, factoryResult >>

\* SceneGraph::Render: RenderTileMaps, then the index renders the actors
\* through ToScreenPosition, which divides by nothing.
Render ==
  /\ pc = "idle"
  /\ dividedByZero' = (Int2Rat(0) \in RenderTileMapsDivisors)
  /\ \E b \in CullingBounds : drawnTiles' = VisitedTiles(b)
  /\ lastOp' = "Render"
  /\ UNCHANGED << scene, camera, returned, removeArg, removeResult, factoryResult >>

\* ---------------------------------------------------------- specifications

\* Positions the frame loop's actors are spawned at.
FramePositions == {Pt(-1, -1), Pt(1, 1), Pt(2, 2)}

\* The frame loop with spawning, destruction and threshold changes.
Next ==
  \/ \E p \in FramePositions, ok \in BOOLEAN : SpawnActor(p, 1, ok)
  \/ \E a \in ActorIds : SetPendingDestroy(a)
  \/ UpdateBegin
  \/ UpdateActor
  \/ UpdateEnd
  \/ ClearActors
  \/ \E n \in 1..MaxThreshold : SetMaxNumActorsPerCell(n)

Spec == Init /\ [][Next]_vars

\* Segments game code casts: along the row y = 1 in both directions, along
\* the row y = -1, down the column x = 1, a point pick, and a short segment
\* left of the world.
Segments ==
  { [o |-> Pt(-4, 1), e |-> Pt(8, 1)], [o |-> Pt(8, 1), e |-> Pt(-4, 1)],
    [o |-> Pt(-4, -1), e |-> Pt(8, -1)], [o |-> Pt(1, -4), e |-> Pt(1, 8)],
    [o |-> Pt(1, 1), e |-> Pt(1, 1)], [o |-> Pt(-4, 1), e |-> Pt(-3, 1)] }

\* Positions of the collision and query scenes: inside a second-level
\* quadrant, inside a first-level quadrant, on the centre of the world, and
\* across the world's left border.
ScenePositions == {Pt(-1, -1), Pt(1, 1), Pt(2, 2), Pt(-2, 1)}

\* Spawning, moving actors and collision resolution between frames.
NextScene ==
  \/ \E p \in ScenePositions, s \in DOMAIN Shapes : SpawnActor(p, s, TRUE)
  \/ \E a \in ActorIds, p \in ScenePositions : MoveActor(a, p)
  \/ ResolveCollisions

SpecScene == Init /\ [][NextScene]_vars

\* Spawning and collision resolution alone: every position change is one
\* that ResolveCollisions makes.
NextCollide ==
  \/ \E p \in ScenePositions, s \in DOMAIN Shapes : SpawnActor(p, s, TRUE)
  \/ ResolveCollisions

SpecCollide == Init /\ [][NextCollide]_vars

\* Spawning and moving actors between frames; the ray queries are asked of
\* every state.
NextQuery ==
  \/ \E p \in ScenePositions, s \in DOMAIN Shapes : SpawnActor(p, s, TRUE)
  \/ \E a \in ActorIds, p \in ScenePositions : MoveActor(a, p)

SpecQuery == Init /\ [][NextQuery]_vars

\* Spawning, single RemoveActor calls and ClearActors between frames.
NextRemove ==
  \/ \E p \in ScenePositions, s \in DOMAIN Shapes : SpawnActor(p, s, TRUE)
  \/ \E a \in ActorIds : CallRemoveActor(a)
  \/ ClearActors

SpecRemove == Init /\ [][NextRemove]_vars

\* The frame loop with both SpawnActor overloads, a factory that can fail,
\* and ClearActors between frames and from inside an actor's update.
NextSpawn ==
  \/ \E p \in FramePositions, ok \in BOOLEAN : SpawnActor(p, 1, ok)
  \/ \E p \in FramePositions, ok \in BOOLEAN : SpawnActorTemplate(p, 1, ok)
  \/ \E a \in ActorIds : SetPendingDestroy(a)
  \/ UpdateBegin
  \/ UpdateActor
  \/ UpdateEnd
  \/ ClearActors
  \/ ClearActorsInUpdate

SpecSpawn == Init /\ [][NextSpawn]_vars

\* Camera positions, zooms, tile dimensions and screen positions game code
\* uses: a camera on and off tile centres, beyond the far corner of the map
\* and before its origin, zero and fractional zoom, even and odd tiles, the
\* screen centre and points around it.
CameraPositions ==
  {RPt(Int2Rat(0), Int2Rat(0)), RPt(Rat(1, 2), Int2Rat(0)), RPt(Int2Rat(5), Int2Rat(5)),
   RPt(Int2Rat(-5), Int2Rat(-5))}

Zooms == {Int2Rat(0), Rat(1, 2), Int2Rat(1), Int2Rat(2)}

TileDimensions == {[w |-> 4, h |-> 2], [w |-> 3, h |-> 3], [w |-> 32, h |-> 16]}

ScreenPositions == {Pt(8, 6), Pt(12, 10)}

\* The camera and the projection being set, and the calls that project.
NextCamera ==
  \/ \E c \in CameraPositions : SetCameraPosition(c)
  \/ \E z \in Zooms : SetZoom(z)
  \/ \E rp \in {"OBLIQUE", "ISOMETRIC"} : SetRenderPerspective(rp)
  \/ \E d \in TileDimensions : SetTileDimensions(d.w, d.h)
  \/ \E sp \in ScreenPositions : CallToWorldPosition(sp)
  \/ \E sp \in ScreenPositions : PickActor(sp)
  \/ RenderTileMaps
  \/ Render

SpecCamera == Init /\ [][NextCamera]_vars

\* ------------------------------------------------------------------ claims

\* The actor is referenced by some cell of the spatial index.
Indexed(a) == \E c \in DOMAIN m_QuadTreeRoot : a \in m_QuadTreeRoot[c].actors

\* The step in which an Update call returns.
UpdateReturns == pc = "updating" /\ pc' = "idle"

\* Some ray query that can be issued in this state returns the actor.
Reported(a) ==
  \E sg \in Segments :
    \/ a \in Range(Raycast(sg.o, sg.e, {}))
    \/ a = RaycastFirstHit(sg.o, sg.e, {})

\* C1: every actor that is marked pending-destroy when an Update pass ends is,
\* once that Update call has returned, absent from the registry and from the
\* spatial index, and no Raycast or RaycastFirstHit returns it.
C1_PendingGoneAfterUpdate ==
  [][UpdateReturns =>
       \A a \in DOMAIN actor :
         actor[a].pending =>
           /\ a \notin Range(m_Actors')
           /\ ~Indexed(a)'
           /\ ~Reported(a)']_vars

\* C2: Update removes only actors marked pending-destroy: an actor of the
\* registry or of the deferred-insertion buffer that is not marked when the
\* pass ends is in the registry and in the index after Update returns.
C2_UnmarkedKeptByUpdate ==
  [][UpdateReturns =>
       \A a \in Range(m_Actors) \cup Range(m_NewActors) :
         ~actor[a].pending => (a \in Range(m_Actors') /\ Indexed(a)')]_vars

\* C3: an actor spawned while the Update pass was in progress, and not marked
\* pending-destroy, is in the registry and in the index once Update returned.
C3_SpawnedInPassPresentAfterUpdate ==
  (pc = "idle" /\ lastOp = "Update") =>
     \A a \in newInPass :
       (a \in DOMAIN actor => ~actor[a].pending) =>
          (a \in Range(m_Actors) /\ Indexed(a))

\* C4: an actor spawned during an Update pass is held in the side buffer, not
\* in the registry, and is not updated in that pass; it is updated in the
\* next pass (carried holds the actors the previous Update spawned and did
\* not find marked pending-destroy).
C4_SpawnedUpdatedNextFrame ==
  /\ pc = "updating" =>
       \A a \in newInPass :
         a \in Range(m_NewActors) /\ a \notin Range(m_Actors) /\ a \notin Range(updated)
  /\ (pc = "updating" /\ updateIndex > Len(m_Actors)) => carried \subseteq Range(updated)

\* C5: in each Update call every actor of the registry at the call's start is
\* updated exactly once, in registry order, whatever is spawned or marked
\* pending-destroy during the pass: the actors updated so far are a prefix of
\* the registry as it was at the start, and all of it once the loop is over.
C5_EachActorUpdatedOnceInOrder ==
  /\ pc = "updating" =>
       /\ Len(updated) = updateIndex - 1
       /\ Len(updated) <= Len(frameStart)
       /\ updated = SubSeq(frameStart, 1, Len(updated))
  /\ ((pc = "updating" /\ updateIndex > Len(m_Actors)) \/ (pc = "idle" /\ lastOp = "Update")) =>
       updated = frameStart
  /\ \A i, j \in DOMAIN updated : i # j => updated[i] # updated[j]

\* A pass over two actors has ended in which an actor was spawned and one was
\* marked pending-destroy.
C5_Witness ==
  /\ pc = "updating"
  /\ updateIndex > Len(m_Actors)
  /\ Len(updated) >= 2
  /\ newInPass # {}
  /\ \E a \in Range(frameStart) : actor[a].pending


\* The live actors the index references.
IndexedActors == {a \in DOMAIN actor : Indexed(a)}

\* Every bounding box of every indexed actor lies within the root region.
AllBoxesInRoot ==
  \A a \in IndexedActors :
    \A i \in DOMAIN Shapes[actor[a].shape] :
      RectContains(GetBoundingBox(Root), WorldBoxes(actor[a].pos, actor[a].shape)[i])

\* C6: after ResolveCollisions returns, every bounding box of every actor in
\* the spatial index, at the root or below it, lies entirely within the root
\* bounding region.
C6_BoxesWithinRootAfterResolve ==
  (pc = "idle" /\ lastOp = "ResolveCollisions") => AllBoxesInRoot

\* The actors a ray query from o to e has to return: indexed, not ignored,
\* with a bounding box the segment meets.
ExpectedHits(o, e, ignore) ==
  {a \in IndexedActors \ ignore : BoxesHit(Index, a, o, e) # {}}

\* C7: Raycast returns exactly the indexed actors with a bounding box on the
\* segment that are not ignored, each once, by ascending hit distance from
\* the origin.
C7_RaycastExactAndOrdered ==
  \A sg \in Segments, ig \in SUBSET DOMAIN actor :
    LET r == Raycast(sg.o, sg.e, ig)
    IN /\ Range(r) = ExpectedHits(sg.o, sg.e, ig)
       /\ \A i, j \in DOMAIN r :
            i < j => /\ r[i] # r[j]
                     /\ NearestHit(Index, r[i], sg.o, sg.e) <= NearestHit(Index, r[j], sg.o, sg.e)

StoredAtLowestCell(a) ==
  LET c == actor[a].cell
  IN /\ c \in DOMAIN m_QuadTreeRoot
     /\ a \in m_QuadTreeRoot[c].actors
     /\ c = Root \/ RectContains(GetBoundingBox(c), ActorExtent(Index, a))
     /\ HasChildren(Index, c) => FittingQuadrants(Index, c, a) = {}

Leaves == {c \in DOMAIN m_QuadTreeRoot : ~HasChildren(Index, c)}

\* C10: every leaf cell holds no more actors than its configured threshold,
\* unless every actor it holds straddles more than one child quadrant.
C10_LeafWithinThreshold ==
  \A c \in Leaves :
    \/ Cardinality(m_QuadTreeRoot[c].actors) <= m_QuadTreeRoot[c].max
    \/ \A a \in m_QuadTreeRoot[c].actors : FittingQuadrants(Index, c, a) = {}

\* Every leaf cell holds no more actors than its configured threshold.
LeafCountsWithinThreshold ==
  \A c \in Leaves : Cardinality(m_QuadTreeRoot[c].actors) <= m_QuadTreeRoot[c].max

\* C10, amended: the leaf bound (no leaf holds more actors than its threshold
\* unless all actors it holds straddle) is kept by every SpawnActor, Update
\* and ClearActors call and by every SetMaxNumActorsPerCell call that does not
\* lower the threshold; only a call that lowers the threshold can break it.
C10_LeafBoundKeptUnlessLowered ==
  [][(C10_LeafWithinThreshold /\ m_QuadTreeRoot'[Root].max >= m_QuadTreeRoot[Root].max)
       => C10_LeafWithinThreshold']_vars

\* The root has subdivided and a leaf below it is filled to its threshold.
C10_Witness ==
  /\ HasChildren(Index, Root)
  /\ LeafCountsWithinThreshold
  /\ \E c \in Leaves :
       c # Root /\ Cardinality(m_QuadTreeRoot[c].actors) = m_QuadTreeRoot[c].max


\* The step in which RemoveActor(a) returns.
RemoveActorReturns(a) == lastOp' = "RemoveActor" /\ removeArg' = a

\* Some AppendActorList traversal of the root lists the actor.
Traversed(a) ==
  \/ a \in Range(AppendActorList(Index, Root, TRUE))
  \/ a \in Range(AppendActorList(Index, Root, FALSE))

\* C11: RemoveActor on an actor that has no owning cell returns false and
\* changes neither the spatial index nor the registry; so does a second
\* RemoveActor on the same actor.
C11_RemoveUnownedFails ==
  [][\A a \in DOMAIN actor :
       (RemoveActorReturns(a) /\ actor[a].cell = NoCell) =>
          /\ removeResult' = FALSE
          /\ m_QuadTreeRoot' = m_QuadTreeRoot
          /\ actor' = actor
          /\ m_Actors' = m_Actors
          /\ m_NewActors' = m_NewActors]_vars

\* A second RemoveActor on an actor has returned false while the index, which
\* has subdivided, still holds another actor.
C11_Witness ==
  /\ lastOp = "RemoveActor"
  /\ removeArg \in DOMAIN actor
  /\ actor[removeArg].cell = NoCell
  /\ removeResult = FALSE
  /\ HasChildren(Index, Root)
  /\ \E b \in DOMAIN actor : Indexed(b)

\* C12: RemoveActor on an actor the index holds returns true, and from then
\* on no AppendActorList traversal of the root, with or without recursion,
\* lists the actor.
C12_RemoveIndexedSucceeds ==
  /\ [][\A a \in DOMAIN actor :
          (RemoveActorReturns(a) /\ Indexed(a)) => (removeResult' = TRUE /\ ~Traversed(a)')]_vars
  /\ [](\A a \in DOMAIN actor : actor[a].cell = NoCell => ~Traversed(a))

\* RemoveActor has returned true for an actor while a child cell holds
\* another actor.
C12_Witness ==
  /\ lastOp = "RemoveActor"
  /\ removeResult = TRUE
  /\ removeArg \in DOMAIN actor
  /\ ~Traversed(removeArg)
  /\ \E b \in DOMAIN actor : actor[b].cell \notin {Root, NoCell}


\* The step in which a SpawnActor overload returns after the factory failed
\* (a step of game code: Update's own steps move pc or updateIndex).
SpawnFails ==
  /\ lastOp' \in {"SpawnActor", "SpawnActor<ActorType>"}
  /\ factoryResult' = FALSE
  /\ pc' = pc
  /\ updateIndex' = updateIndex

\* C13: when the factory fails, either SpawnActor overload yields no actor
\* and leaves the registry, the side buffer and the index as they were.
C13_FailedSpawnLeavesNothing ==
  [][SpawnFails =>
       /\ returned' = Null
       /\ m_Actors' = m_Actors
       /\ m_NewActors' = m_NewActors
       /\ m_QuadTreeRoot' = m_QuadTreeRoot]_vars


\* The step in which SpawnActor returns after the factory succeeded.
SpawnSucceeds ==
  /\ lastOp' = "SpawnActor"
  /\ factoryResult' = TRUE
  /\ nextActor' # nextActor

\* The number of places of a sequence that hold the element.
Occurrences(s, a) == Cardinality({i \in DOMAIN s : s[i] = a})

\* C14: a successful SpawnActor returns a new actor that it has put in
\* exactly one of the registry (no Update pass in progress) and the side
\* buffer (mid-update), once, and into the spatial index.
C14_SpawnedActorPlacedOnce ==
  [][SpawnSucceeds =>
       \A a \in ActorIds \cup {Null} :
         returned' = a =>
          /\ a \notin DOMAIN actor
          /\ a \in DOMAIN actor'
          /\ Indexed(a)'
          /\ IF m_IsUpdatingActors
             THEN /\ m_NewActors' = Append(m_NewActors, a)
                  /\ m_Actors' = m_Actors
             ELSE /\ m_Actors' = Append(m_Actors, a)
                  /\ m_NewActors' = m_NewActors
          /\ Occurrences(m_Actors', a) + Occurrences(m_NewActors', a) = 1]_vars

\* SpawnActor has returned an actor spawned mid-update: it waits in the side
\* buffer and a child cell of the index holds it.
C14_Witness ==
  /\ pc = "updating"
  /\ lastOp = "SpawnActor"
  /\ returned \in Range(m_NewActors)
  /\ returned \notin Range(m_Actors)
  /\ returned \in DOMAIN actor
  /\ actor[returned].cell \notin {Root, NoCell}

\* C15: after ClearActors returns, between frames or inside an Update pass,
\* the registry is empty and no cell of the index holds an actor.
C15_ClearActorsEmptiesIndex ==
  lastOp = "ClearActors" =>
     /\ m_Actors = << >>
     /\ \A c \in DOMAIN m_QuadTreeRoot : m_QuadTreeRoot[c].actors = {}


\* World positions the projections are asked about: tile centres and a
\* point between them.
WorldPoints ==
  { RPt(Int2Rat(0), Int2Rat(0)), RPt(Int2Rat(1), Int2Rat(0)),
    RPt(Int2Rat(1), Int2Rat(2)), RPt(Rat(1, 2), Rat(1, 2)) }

\* Someone has set the perspective.
PerspectiveSet == m_RenderPerspective \in {"OBLIQUE", "ISOMETRIC"}

\* The floored projection of the camera's world position under the current
\* perspective and tile dimensions.
ProjectedCamera ==
  LET projected == ToCartesianCoord(m_RenderPerspective, m_wCameraPosition)
  IN RPt(RFloor(projected.x), RFloor(projected.y))

\* C16: after any sequence of SetCameraPosition, SetZoom,
\* SetRenderPerspective and SetTileDimensions calls the cached camera
\* projection is the floored projection of the camera's world position under
\* the current perspective and tile dimensions.
C16_CameraCacheCurrent ==
  PerspectiveSet => m_sCameraPosition = ProjectedCamera

\* C17: the camera projects to itself: ToScreenPosition of the camera's
\* world position is the screen centre, whatever camera position, zoom,
\* perspective and tile dimensions are set.
C17_CameraProjectsToCentre ==
  PerspectiveSet =>
     ToScreenPosition(m_RenderPerspective, m_wCameraPosition) = ToPointFloat(ScreenCentre)

\* C18: for both perspectives and the tile dimensions set, odd or even,
\* ToIsometricCoord(ToCartesianCoord(p)) = p for every point p.
C18_IsometricInvertsCartesian ==
  \A p \in WorldPoints, rp \in {"OBLIQUE", "ISOMETRIC"} :
    ToIsometricCoord(rp, ToPointInt(ToCartesianCoord(rp, p))) = p

\* C19: with a zoom other than zero, ToWorldPosition(ToScreenPosition(w, 0))
\* = w for every world position w, whatever the camera position and the
\* perspective.
C19_WorldInvertsScreen ==
  (PerspectiveSet /\ m_Zoom # Int2Rat(0)) =>
     \A w \in WorldPoints :
       ToWorldPosition(m_RenderPerspective,
                       ToPointInt(ToScreenPosition(m_RenderPerspective, w))) = w

\* C20: with the zoom at zero, ToWorldPosition, PickActor, RenderTileMaps
\* and Render return without having divided by zero.
C20_NoDivisionByZeroZoom ==
  (m_Zoom = Int2Rat(0)
   /\ lastOp \in {"ToWorldPosition", "PickActor", "RenderTileMaps", "Render"})
     => ~dividedByZero

\* RenderTileMaps has just returned without dividing by zero.
TilesRendered == lastOp \in {"RenderTileMaps", "Render"} /\ ~dividedByZero

\* C21: every tile (j, i) RenderTileMaps draws satisfies
\* round(camX - extent) <= j < round(camX + extent) + 1 and
\* round(camY - extent) <= i < round(camY + extent) + 1, for every camera
\* position, those whose upper culling bound is negative included.
C21_DrawnTilesWithinCullingExtent ==
  TilesRendered =>
    \A t \in drawnTiles :
      /\ RRound(RSub(m_wCameraPosition.x, CullingBoxExtent)) <= t.x
      /\ t.x < RRound(RAdd(m_wCameraPosition.x, CullingBoxExtent)) + 1
      /\ RRound(RSub(m_wCameraPosition.y, CullingBoxExtent)) <= t.y
      /\ t.y < RRound(RAdd(m_wCameraPosition.y, CullingBoxExtent)) + 1

\* The claim restricted to cameras whose upper bounds are not negative.
C21_WithinExtentWhenBoundsNonNegative ==
  (/\ TilesRendered
   /\ RRound(RAdd(m_wCameraPosition.x, CullingBoxExtent)) + 1 >= 0
   /\ RRound(RAdd(m_wCameraPosition.y, CullingBoxExtent)) + 1 >= 0)
  => C21_DrawnTilesWithinCullingExtent


\* The cells whose actor set holds actor a.
HoldingCells(a) == {c \in DOMAIN m_QuadTreeRoot : a \in m_QuadTreeRoot[c].actors}

\* C22: an actor's back-reference names a cell if and only if that cell's
\* actor set holds the actor, and each actor is held by at most one cell,
\* across insertion, subdivision and removal.
C22_BackReferenceMatchesHolder ==
  \A a \in DOMAIN actor :
    /\ \A c \in DOMAIN m_QuadTreeRoot : actor[a].cell = c <=> c \in HoldingCells(a)
    /\ actor[a].cell # NoCell => actor[a].cell \in DOMAIN m_QuadTreeRoot
    /\ Cardinality(HoldingCells(a)) <= 1

\* After a removal: one actor was pushed down to a child by a subdivision,
\* one stayed at the root and one has been removed and names no cell.
C22_Witness ==
  /\ lastOp = "RemoveActor"
  /\ \E a, b, c \in DOMAIN actor :
       /\ actor[a].cell \notin {Root, NoCell}
       /\ actor[b].cell = Root
       /\ actor[c].cell = NoCell /\ HoldingCells(c) = {}

\* The actors the cells of the spatial index reference.
IndexReferenced == UNION {m_QuadTreeRoot[c].actors : c \in DOMAIN m_QuadTreeRoot}

\* The actors the registry and the deferred-insertion buffer own.
Owned == Range(m_Actors) \cup Range(m_NewActors)

\* C23: in every reachable state the actors referenced by the spatial index
\* are the actors owned by the registry together with the
\* deferred-insertion buffer: no released actor is referenced and no owned
\* actor is missing.
C23_IndexReferencesExactlyOwned ==
  /\ IndexReferenced = Owned
  /\ IndexReferenced \subseteq DOMAIN actor

\* An actor waits in the deferred-insertion buffer beside one in the
\* registry, after an earlier actor was destroyed and released.
C23_Witness ==
  /\ m_NewActors # << >>
  /\ m_Actors # << >>
  /\ \E a \in 1..(nextActor - 1) : a \notin DOMAIN actor
  /\ IndexReferenced = Owned

\* C24: whenever no Update call is in progress the update-in-progress flag
\* is false and the deferred-insertion buffer is empty, and the flag is true
\* for the whole of the actor update pass.
C24_FlagAndBufferFollowUpdate ==
  /\ pc = "idle" => (~m_IsUpdatingActors /\ m_NewActors = << >>)
  /\ pc = "updating" => m_IsUpdatingActors

\* Update has returned from a pass in which an actor was spawned into the
\* buffer and flushed to the registry.
C24_Witness ==
  /\ pc = "idle"
  /\ lastOp = "Update"
  /\ \E a \in newInPass : a \in Range(m_Actors)
  /\ ~m_IsUpdatingActors
  /\ m_NewActors = << >>

\* C25: after SetTileDimensions(w, h), GetTileDimensions returns X equal to
\* the tile width w and Y equal to the tile height h, agreeing with
\* GetTileWidth and GetTileHeight.
C25_TileDimensionsAreWidthHeight ==
  [][\A d \in TileDimensions :
       SetTileDimensions(d.w, d.h) =>
         /\ GetTileDimensions' = Pt(d.w, d.h)
         /\ GetTileDimensions'.x = GetTileWidth'
         /\ GetTileDimensions'.y = GetTileHeight']_vars

\* What the code does: X is the tile height and Y the tile width.
C25_TileDimensionsAreHeightWidth ==
  [][\A d \in TileDimensions :
       SetTileDimensions(d.w, d.h) =>
         /\ GetTileDimensions' = Pt(d.h, d.w)
         /\ GetTileWidth' = d.w
         /\ GetTileHeight' = d.h]_vars

====
